---- MODULE Spec2Model ----
(***************************************************************************)
(* A model of parquet_validator.py: ParquetValidator.validate and main.    *)
(*                                                                         *)
(* A directory name and a stored partition path are sequences of           *)
(* one-character strings, so that `"=" in name`, name.split("=", 1) and    *)
(* file_path.split('/') are computed as Python computes them.  A path is   *)
(* the sequence of names from the base path down; <<>> is the base path.   *)
(***************************************************************************)
EXTENDS Integers, Sequences, FiniteSets, TLC

\* ------------------------------------------------------------- bounds
\* Most directories in a tree of Spec.
MaxDirs == 3
\* Most data files in a tree of SpecFiles.
MaxFiles == 2

\* ------------------------------------------------------------- strings
NameA == <<"a">>
NameY1 == <<"y", "=", "1">>
NameY2 == <<"y", "=", "2">>
NameM1 == <<"m", "=", "1">>
NameKVW == <<"k", "=", "v", "=", "w">>
DirNames == {NameA, NameY1, NameY2, NameM1, NameKVW}

\* "=" in s
HasEqExactlyOne(s) == Cardinality({i \in 1..Len(s) : s[i] = "="}) = 1
HasEq(s) == \E i \in 1..Len(s) : s[i] = "="

\* s.split("=", 1) of a string holding "=": the parts around the FIRST "=".
SplitFirst(s) ==
    LET i == CHOOSE k \in 1..Len(s) :
                 s[k] = "=" /\ \A j \in 1..(k-1) : s[j] # "="
    IN  <<SubSeq(s, 1, i - 1), SubSeq(s, i + 1, Len(s))>>

\* s.split('/'): every "/" separates; "" gives [""].
RECURSIVE SplitSlash(_)
SplitSlash(s) ==
    IF \A i \in 1..Len(s) : s[i] # "/" THEN <<s>>
    ELSE LET i == CHOOSE k \in 1..Len(s) :
                      s[k] = "/" /\ \A j \in 1..(k-1) : s[j] # "/"
         IN  <<SubSeq(s, 1, i - 1)>> \o SplitSlash(SubSeq(s, i + 1, Len(s)))

\* ------------------------------------------------------------- file system
\* q is an entry of directory p (path.iterdir()).
IsChild(p, q) == Len(q) = Len(p) + 1 /\ SubSeq(q, 1, Len(p)) = p

\* The prefix-closed sets of at most n directory paths.
RECURSIVE Trees(_)
Trees(n) ==
    IF n = 0 THEN {{}}
    ELSE LET T == Trees(n - 1)
         IN  T \cup {t \cup {Append(p, nm)} :
                       t \in T, p \in {<<>>}, nm \in DirNames}
               \cup UNION {{t \cup {Append(p, nm)} : p \in t, nm \in DirNames} : t \in T}

\* What the metadata reader finds in a data file: whether pq.ParquetFile opens
\* it, its schema, whether metadata.row_group(0).column(0) exists, and the
\* file_path stored there.
FileKind(sfx, op, sc, md, fp) ==
    [suffix |-> sfx, opens |-> op, schema |-> sc, metadataOk |-> md, filePath |-> fp]
PathBlank == <<>>
PathY1M1 == <<"y", "=", "1", "/", "m", "=", "1">>
PathY3 == <<"y", "=", "3">>
FileKinds ==
    { FileKind(".txt", FALSE, "S1", FALSE, PathBlank),
      FileKind(".parquet", FALSE, "S1", FALSE, PathBlank),
      FileKind(".parquet", TRUE, "S1", FALSE, PathBlank),
      FileKind(".parquet", TRUE, "S2", FALSE, PathBlank),
      FileKind(".parquet", TRUE, "S1", TRUE, PathY1M1),
      FileKind(".parquet", TRUE, "S2", TRUE, PathY3) }

\* The i-th file name: "f", "ff", ...
FileName(i) == [j \in 1..i |-> "f"]

\* The sets of at most n data files placed in the directories of tree t.
FileSets(t, n) ==
    UNION { { {[path |-> Append(pl[i][1], FileName(i)), kind |-> pl[i][2]] : i \in 1..k} :
                pl \in [1..k -> ((t \cup {<<>>}) \X FileKinds)] } : k \in 0..n }

VARIABLES
    rootExists,            \* self.base_path.exists()
    tree,                  \* the directories under the base path
    files,                 \* the files under the base path
    unreadable,            \* directories whose iterdir() raises
    pc,                    \* the phase of validate()
    stack,                 \* the active calls of the recursive walk
    schema,                \* self.schema
    partition_columns,     \* self.partition_columns
    partition_values,      \* self.partition_values
    errors,                \* self.errors
    directory_structures,  \* self.directory_structures, in insertion order
    result,                \* what validate() returned
    exitCode,              \* the process's exit status
    phases,                \* observation: the phases entered, in order
    opened,                \* observation: the files given to pq.ParquetFile
    refBy,                 \* observation: the files that assigned self.schema
    conflict,              \* observation: what _check_conflicting_structures reported
    retPath                \* observation: the return statement validate() left by

env == <<rootExists, tree, files, unreadable>>
obs == <<phases, opened, refBy, conflict, retPath>>
vars == <<rootExists, tree, files, unreadable, pc, stack, schema, partition_columns,
          partition_values, errors, directory_structures, result, exitCode,
          phases, opened, refBy, conflict, retPath>>

FilePaths == {f.path : f \in files}
FileAt(p) == CHOOSE f \in files : f.path = p

\* One call of a recursive walk: the directory and the entries still to visit.
Frame(p) == [path |-> p, todo |-> {q \in tree \cup FilePaths : IsChild(p, q)}]
Top == stack[Len(stack)]
Pop(stk) == SubSeq(stk, 1, Len(stk) - 1)
Consume(stk, q) == [stk EXCEPT ![Len(stk)].todo = @ \ {q}]
NoPush(stk, q) == stk
Push(stk, q) == Append(stk, Frame(q))

\* ------------------------------------------------------------- errors
Err(tag, subject, key, value) ==
    [tag |-> tag, subject |-> subject, key |-> key, value |-> value]
PrependErrors(errs, new) == new \o errs
AppendErrors(errs, new) == errs \o new
ConflictHeader == Err("conflicting_structure", <<>>, <<>>, <<>>)
ConflictPath(p) == Err("suspicious_path", p, <<>>, <<>>)
ConflictAdvice == Err("remediation", <<>>, <<>>, <<>>)
CountTag(errs, tag) == Cardinality({i \in 1..Len(errs) : errs[i].tag = tag})

\* ------------------------------------------------------------- collection
\* self.directory_structures[level].add(new_structure), the level created on
\* first use; a dict keeps its keys in insertion order.
RecordStructureFront(ds, s) ==
    LET ds1 == IF \E i \in 1..Len(ds) : ds[i].level = Len(s) THEN ds
               ELSE <<[level |-> Len(s), structures |-> {}]>> \o ds
    IN  [i \in 1..Len(ds1) |->
            IF ds1[i].level = Len(s)
            THEN [ds1[i] EXCEPT !.structures = @ \cup {s}] ELSE ds1[i]]
RecordStructure(ds, s) ==
    LET ds1 == IF \E i \in 1..Len(ds) : ds[i].level = Len(s) THEN ds
               ELSE Append(ds, [level |-> Len(s), structures |-> {}])
    IN  [i \in 1..Len(ds1) |->
            IF ds1[i].level = Len(s)
            THEN [ds1[i] EXCEPT !.structures = @ \cup {s}] ELSE ds1[i]]

\* if "=" in item.name: self.partition_columns.add(partition_key)
AddColumnExactlyOne(cols, name) ==
    IF HasEqExactlyOne(name) THEN cols \cup {SplitFirst(name)[1]} ELSE cols
AddColumn(cols, name) ==
    IF HasEq(name) THEN cols \cup {SplitFirst(name)[1]} ELSE cols

\* if "=" in item.name: self.partition_values[partition_key].add(partition_value)
AddValue(pv, name) ==
    IF HasEq(name)
    THEN LET k == SplitFirst(name)[1]
             v == SplitFirst(name)[2]
         IN  [x \in DOMAIN pv \cup {k} |->
                 IF x = k THEN (IF k \in DOMAIN pv THEN pv[k] ELSE {}) \cup {v}
                 ELSE pv[x]]
    ELSE pv

\* ------------------------------------------------------------- conflicts
Structures(ds) == UNION {ds[i].structures : i \in 1..Len(ds)}
RootPaths(ds) == {s[1] : s \in {t \in Structures(ds) : Len(t) > 0}}
LevelKeys(structures) ==
    {SplitFirst(d)[1] :
        d \in {n \in UNION {{s[i] : i \in 1..Len(s)} : s \in structures} : HasEq(n)}}

\* The first entry of the dict, in its iteration order, with several keys; 0 if none.
RECURSIVE FirstConflict(_, _)
FirstConflict(ds, i) ==
    IF i > Len(ds) THEN 0
    ELSE IF Cardinality(LevelKeys(ds[i].structures)) > 1 THEN i
    ELSE FirstConflict(ds, i + 1)

\* The orders in which `for x in S` may enumerate a set.
Orders(S) ==
    {o \in [1..Cardinality(S) -> S] : \A i, j \in 1..Cardinality(S) : i # j => o[i] # o[j]}

\* What _check_conflicting_structures appends to self.errors.
ConflictOutputs(ds) ==
    LET roots == RootPaths(ds)
    IN  IF Cardinality(roots) > 1 /\ ~(\A r \in roots : HasEq(r))
        THEN {[step |-> "root", level |-> 0,
               errors |-> <<ConflictHeader>>
                          \o [i \in 1..Len(o) |-> ConflictPath(<<o[i]>>)]
                          \o <<ConflictAdvice>>] : o \in Orders(roots)}
        ELSE LET i == FirstConflict(ds, 1)
             IN  IF i = 0 THEN {[step |-> "none", level |-> 0, errors |-> <<>>]}
                 ELSE {[step |-> "depth", level |-> ds[i].level,
                        errors |-> <<ConflictHeader>>
                                   \o [j \in 1..Len(o) |-> ConflictPath(o[j])]
                                   \o <<ConflictAdvice>>] :
                          o \in Orders(ds[i].structures)}

\* ------------------------------------------------------------- files
\* except Exception as e: self.errors.append("Error reading parquet file ...")
OnReadErrorOnly(errs, p) == <<Err("file_read_error", p, <<>>, <<>>)>>
OnReadError(errs, p) == AppendErrors(errs, <<Err("file_read_error", p, <<>>, <<>>)>>)

\* for partition in file_partitions: ... "Partition value mismatch"
RECURSIVE PartitionErrors(_, _, _)
PartitionErrors(pv, p, parts) ==
    IF parts = <<>> THEN <<>>
    ELSE LET part == Head(parts)
             bad == /\ HasEq(part)
                    /\ SplitFirst(part)[1] \in DOMAIN pv
                    /\ SplitFirst(part)[2] \notin pv[SplitFirst(part)[1]]
         IN  (IF bad
              THEN <<Err("partition_value_mismatch", p,
                         SplitFirst(part)[1], SplitFirst(part)[2])>>
              ELSE <<>>) \o PartitionErrors(pv, p, Tail(parts))

\* The try block for one .parquet file.
CheckFile(sch, errs, pv, f) ==
    IF ~f.kind.opens
    THEN [schema |-> sch, errors |-> OnReadError(errs, f.path)]
    ELSE LET sch1 == IF sch = "None" THEN f.kind.schema ELSE sch
             errs1 == IF sch # "None" /\ sch # f.kind.schema
                      THEN AppendErrors(errs, <<Err("schema_mismatch", f.path, <<>>, <<>>)>>)
                      ELSE errs
         IN  IF ~f.kind.metadataOk
             THEN [schema |-> sch1, errors |-> OnReadError(errs1, f.path)]
             ELSE [schema |-> sch1,
                   errors |-> AppendErrors(errs1,
                                 PartitionErrors(pv, f.path, SplitSlash(f.kind.filePath)))]

\* ------------------------------------------------------------- validate()
NoMissingPathError(errs) == errs
MissingPathErrors(errs) == AppendErrors(errs, <<Err("missing_path", <<>>, <<>>, <<>>)>>)
AlwaysTrue(errs) == "True"
ReturnValue(errs) == IF errs # <<>> THEN "False" ELSE "True"
ExitStatus(success) == IF success # "True" THEN 1 ELSE 0

\* The trees and files of Spec: every tree of at most MaxDirs directories, with
\* at most one file, in the base directory.
StructFiles ==
    {{}} \cup {{[path |-> <<FileName(1)>>, kind |-> k]} :
                 k \in {FileKind(".txt", FALSE, "S1", FALSE, PathBlank),
                        FileKind(".parquet", TRUE, "S2", TRUE, PathY3)}}
\* The trees of SpecFiles.
FileTrees == { {}, {<<NameY1>>}, {<<NameA>>, <<NameY1>>}, {<<NameY1>>, <<NameY1, NameM1>>} }
Faults(t) == {{}} \cup {{d} : d \in t \cup {<<>>}}
FileFaults(t) == {{}} \cup {{d} : d \in t}

InitRun ==
    /\ pc = "NotStarted"
    /\ stack = <<>>
    /\ schema = "None"
    /\ partition_columns = {}
    /\ partition_values = <<>>
    /\ errors = <<>>
    /\ directory_structures = <<>>
    /\ result = "unset"
    /\ exitCode = -1
    /\ phases = <<>>
    /\ opened = <<>>
    /\ refBy = <<>>
    /\ conflict = [step |-> "pending", level |-> 0]
    /\ retPath = "none"

Init ==
    /\ rootExists \in BOOLEAN
    /\ tree \in IF rootExists THEN Trees(MaxDirs) ELSE {{}}
    /\ files \in IF rootExists THEN StructFiles ELSE {{}}
    /\ unreadable \in IF rootExists THEN Faults(tree) ELSE {{}}
    /\ InitRun

InitFiles ==
    /\ rootExists \in BOOLEAN
    /\ tree \in IF rootExists THEN FileTrees ELSE {{}}
    /\ files \in IF rootExists THEN FileSets(tree, MaxFiles) ELSE {{}}
    /\ unreadable \in IF rootExists THEN FileFaults(tree) ELSE {{}}
    /\ InitRun

\* if not self.base_path.exists(): ...; return False
MissingPath ==
    /\ pc = "NotStarted" /\ ~rootExists
    /\ errors' = MissingPathErrors(errors)
    /\ result' = "False"
    /\ retPath' = "missing"
    /\ pc' = "Done"
    /\ phases' = Append(phases, "Done")
    /\ UNCHANGED <<env, stack, schema, partition_columns, partition_values,
                   directory_structures, exitCode, opened, refBy, conflict>>

\* self._validate_folder_structure(self.base_path)
BeginCollect ==
    /\ pc = "NotStarted" /\ rootExists
    /\ pc' = "CollectingStructure"
    /\ phases' = Append(phases, "CollectingStructure")
    /\ stack' = <<Frame(<<>>)>>
    /\ UNCHANGED <<env, schema, partition_columns, partition_values, errors,
                   directory_structures, result, exitCode, opened, refBy, conflict, retPath>>

\* path.iterdir() raises; validate() catches it: except Exception
Unexpected ==
    /\ pc \in {"CollectingStructure", "ValidatingFiles"}
    /\ stack # <<>> /\ Top.path \in unreadable
    /\ errors' = AppendErrors(errors, <<Err("unexpected", Top.path, <<>>, <<>>)>>)
    /\ result' = "False"
    /\ retPath' = "unexpected"
    /\ pc' = "Done"
    /\ phases' = Append(phases, "Done")
    /\ stack' = <<>>
    /\ UNCHANGED <<env, schema, partition_columns, partition_values,
                   directory_structures, exitCode, opened, refBy, conflict>>

\* One iteration of the loop of _validate_folder_structure on a directory.
CollectDir ==
    /\ pc = "CollectingStructure" /\ stack # <<>> /\ Top.path \notin unreadable
    /\ \E q \in Top.todo :
        /\ q \in tree
        /\ directory_structures' = RecordStructure(directory_structures, q)
        /\ partition_columns' = AddColumn(partition_columns, q[Len(q)])
        /\ partition_values' = AddValue(partition_values, q[Len(q)])
        /\ stack' = Push(Consume(stack, q), q)
    /\ UNCHANGED <<env, pc, schema, errors, result, exitCode, obs>>

\* One iteration on an entry that is no directory.
CollectSkip ==
    /\ pc = "CollectingStructure" /\ stack # <<>> /\ Top.path \notin unreadable
    /\ \E q \in Top.todo :
        /\ q \notin tree
        /\ stack' = Consume(stack, q)
    /\ UNCHANGED <<env, pc, schema, partition_columns, partition_values, errors,
                   directory_structures, result, exitCode, obs>>

\* The loop of _validate_folder_structure ends and the call returns.
CollectReturn ==
    /\ pc = "CollectingStructure" /\ stack # <<>> /\ Top.path \notin unreadable
    /\ Top.todo = {}
    /\ stack' = Pop(stack)
    /\ pc' = IF Len(stack) = 1 THEN "CheckingConflicts" ELSE pc
    /\ phases' = IF Len(stack) = 1 THEN Append(phases, "CheckingConflicts") ELSE phases
    /\ UNCHANGED <<env, schema, partition_columns, partition_values, errors,
                   directory_structures, result, exitCode, opened, refBy, conflict, retPath>>

\* self._check_conflicting_structures(), then the second walk starts.
CheckConflicts ==
    /\ pc = "CheckingConflicts"
    /\ \E out \in ConflictOutputs(directory_structures) :
        /\ errors' = AppendErrors(errors, out.errors)
        /\ conflict' = [step |-> out.step, level |-> out.level]
    /\ pc' = "ValidatingFiles"
    /\ phases' = Append(phases, "ValidatingFiles")
    /\ stack' = <<Frame(<<>>)>>
    /\ UNCHANGED <<env, schema, partition_columns, partition_values,
                   directory_structures, result, exitCode, opened, refBy, retPath>>

\* if item.is_dir(): self._validate_parquet_files(item)
ValidateDir ==
    /\ pc = "ValidatingFiles" /\ stack # <<>> /\ Top.path \notin unreadable
    /\ \E q \in Top.todo :
        /\ q \in tree
        /\ stack' = Push(Consume(stack, q), q)
    /\ UNCHANGED <<env, pc, schema, partition_columns, partition_values, errors,
                   directory_structures, result, exitCode, obs>>

\* elif item.suffix == '.parquet': the try block
ValidateFile ==
    /\ pc = "ValidatingFiles" /\ stack # <<>> /\ Top.path \notin unreadable
    /\ \E q \in Top.todo :
        /\ q \notin tree /\ FileAt(q).kind.suffix = ".parquet"
        /\ LET r == CheckFile(schema, errors, partition_values, FileAt(q))
           IN  /\ schema' = r.schema
               /\ errors' = r.errors
               /\ refBy' = IF r.schema # schema THEN Append(refBy, q) ELSE refBy
        /\ opened' = Append(opened, q)
        /\ stack' = Consume(stack, q)
    /\ UNCHANGED <<env, pc, partition_columns, partition_values,
                   directory_structures, result, exitCode, phases, conflict, retPath>>

\* An entry that is neither a directory nor a .parquet file.
ValidateSkip ==
    /\ pc = "ValidatingFiles" /\ stack # <<>> /\ Top.path \notin unreadable
    /\ \E q \in Top.todo :
        /\ q \notin tree /\ FileAt(q).kind.suffix # ".parquet"
        /\ stack' = Consume(stack, q)
    /\ UNCHANGED <<env, pc, schema, partition_columns, partition_values, errors,
                   directory_structures, result, exitCode, obs>>

\* The loop of _validate_parquet_files ends and the call returns.
ValidateReturn ==
    /\ pc = "ValidatingFiles" /\ stack # <<>> /\ Top.path \notin unreadable
    /\ Top.todo = {}
    /\ stack' = Pop(stack)
    /\ UNCHANGED <<env, pc, schema, partition_columns, partition_values, errors,
                   directory_structures, result, exitCode, obs>>

\* if self.errors: ... return False;  return True
Report ==
    /\ pc = "ValidatingFiles" /\ stack = <<>>
    /\ result' = ReturnValue(errors)
    /\ retPath' = "normal"
    /\ pc' = "Done"
    /\ phases' = Append(phases, "Done")
    /\ UNCHANGED <<env, stack, schema, partition_columns, partition_values, errors,
                   directory_structures, exitCode, opened, refBy, conflict>>

\* main(): if not success: exit(1)
Exit ==
    /\ pc = "Done" /\ exitCode = -1
    /\ exitCode' = ExitStatus(result)
    /\ UNCHANGED <<env, pc, stack, schema, partition_columns, partition_values, errors,
                   directory_structures, result, obs>>

Next ==
    \/ MissingPath
    \/ BeginCollect
    \/ Unexpected
    \/ CollectDir
    \/ CollectSkip
    \/ CollectReturn
    \/ CheckConflicts
    \/ ValidateDir
    \/ ValidateFile
    \/ ValidateSkip
    \/ ValidateReturn
    \/ Report
    \/ Exit

Spec == Init /\ [][Next]_vars
SpecFiles == InitFiles /\ [][Next]_vars

\* ------------------------------------------------------------- properties
IsPrefix(a, b) == Len(a) <= Len(b) /\ SubSeq(b, 1, Len(a)) = a
Range(q) == {q[i] : i \in 1..Len(q)}
PhaseOrder == <<"CollectingStructure", "CheckingConflicts", "ValidatingFiles", "Done">>
ParquetPaths == {f.path : f \in {g \in files : g.kind.suffix = ".parquet"}}
ConflictTags == {"conflicting_structure", "suspicious_path", "remediation"}
FileErrorTags == {"schema_mismatch", "partition_value_mismatch"}
ReadErrorsFor(p) ==
    Cardinality({i \in 1..Len(errors) :
                    errors[i].tag = "file_read_error" /\ errors[i].subject = p})

\* C1: when the base path exists and no unexpected exception is raised, the
\* phases are entered in the order collect, check conflicts, validate files,
\* done, each once; conflict detection starts only when the walk has recorded
\* every directory of the tree; no file is opened before conflict detection
\* has finished.
C1_PhasesInStrictOrder ==
    /\ (rootExists /\ retPath # "unexpected") => IsPrefix(phases, PhaseOrder)
    /\ retPath = "normal" => phases = PhaseOrder
    /\ phases # <<>> => pc = phases[Len(phases)]
    /\ pc = "CheckingConflicts" => Structures(directory_structures) = tree
    /\ conflict.step = "pending" => opened = <<>>
C1_Witness ==
    /\ retPath = "normal" /\ phases = PhaseOrder
    /\ \E p \in tree : Len(p) = 3
    /\ opened # <<>>

\* C2: when the base path does not exist, validate() returns failure at once
\* with the missing-path error as the only error; the key set, the value map
\* and the per-depth tuple sets stay empty, the reference schema stays unset
\* and no file is opened.
C2_MissingRootAbortsAtOnce ==
    ~rootExists =>
        /\ pc \in {"NotStarted", "Done"}
        /\ partition_columns = {} /\ partition_values = <<>>
        /\ directory_structures = <<>> /\ schema = "None" /\ opened = <<>>
        /\ pc = "Done" =>
            /\ result = "False" /\ retPath = "missing" /\ phases = <<"Done">>
            /\ Len(errors) = 1 /\ errors[1].tag = "missing_path"
C2_Witness == ~rootExists /\ pc = "Done" /\ exitCode = 1

\* C3: on every exit path the result is success exactly when the error list
\* is empty at the return, and the process exits with 0 exactly when the list
\* is empty and with 1 otherwise.
C3_SuccessIffNoErrors ==
    /\ pc = "Done" => (result = "True" <=> errors = <<>>)
    /\ pc = "Done" => result \in {"True", "False"}
    /\ exitCode # -1 => exitCode = (IF errors = <<>> THEN 0 ELSE 1)
C3_Witness == exitCode = 0 /\ retPath = "normal" /\ opened # <<>> /\ tree # {}

\* C4 (as claimed): in a run where conflict detection reports a
\* conflicting-structure error, no schema-mismatch and no
\* partition-value-mismatch error is reported.
C4_NoFileErrorsAfterConflict ==
    CountTag(errors, "conflicting_structure") > 0 =>
        \A i \in 1..Len(errors) : errors[i].tag \notin FileErrorTags

\* C4 (amended): in a run where conflict detection reports a
\* conflicting-structure error the file validation still runs and opens
\* every .parquet file, and every schema-mismatch and partition-value-mismatch
\* error it reports comes after the entries of the conflict report.
C4_FileErrorsFollowConflictReport ==
    /\ \A i, j \in 1..Len(errors) :
          (errors[i].tag \in ConflictTags /\ errors[j].tag \in FileErrorTags) => i < j
    /\ (conflict.step \in {"root", "depth"} /\ retPath = "normal") =>
          Range(opened) = ParquetPaths
C4_Witness ==
    /\ retPath = "normal"
    /\ CountTag(errors, "conflicting_structure") = 1
    /\ CountTag(errors, "schema_mismatch") > 0
    /\ CountTag(errors, "partition_value_mismatch") > 0

\* The partition keys carried by the directories located at depth d.
KeysAtDepth(d) ==
    {SplitFirst(p[d])[1] : p \in {q \in tree : Len(q) = d /\ HasEq(q[d])}}

\* C5: Step 2 reports a depth as conflicting only when the directories
\* located at that depth carry more than one distinct partition key.
C5_ConflictOnlyOnSeveralKeysAtDepth ==
    conflict.step = "depth" => Cardinality(KeysAtDepth(conflict.level)) > 1

\* C6: conflict detection adds at most one element to the error list.
C6_AtMostOneConflictElement ==
    Cardinality({i \in 1..Len(errors) : errors[i].tag \in ConflictTags}) <= 1

\* The files opened so far for which no file-read-error was reported.
RECURSIVE ReadOk(_)
ReadOk(q) ==
    IF q = <<>> THEN <<>>
    ELSE (IF ReadErrorsFor(Head(q)) = 0 THEN <<Head(q)>> ELSE <<>>) \o ReadOk(Tail(q))

\* C7: the reference schema is assigned once, by the first file read without
\* a file-read-error, and never again; a file reported with a file-read-error
\* never becomes the reference.
C7_ReferenceFromFirstReadableFile ==
    /\ Len(refBy) <= 1
    /\ \A i \in 1..Len(refBy) : ReadErrorsFor(refBy[i]) = 0
    /\ refBy = (IF ReadOk(opened) = <<>> THEN <<>> ELSE <<Head(ReadOk(opened))>>)

\* C8: a failure of the metadata reader on a file adds one file-read-error
\* naming it and never aborts the run: every other data file is still
\* visited, validate() ends by its normal path, and the errors accumulated
\* before the failure are kept.
C8_State ==
    /\ (rootExists /\ unreadable = {}) => retPath \in {"none", "normal"}
    /\ retPath = "normal" =>
          /\ Range(opened) = ParquetPaths
          /\ Len(opened) = Cardinality(ParquetPaths)
    /\ \A f \in files :
          ReadErrorsFor(f.path) =
              (IF f.path \in Range(opened) /\ ~(f.kind.opens /\ f.kind.metadataOk)
               THEN 1 ELSE 0)
C8_ReadFailureNeverAborts ==
    [](C8_State) /\ [][IsPrefix(errors, errors')]_vars
C8_Witness ==
    /\ retPath = "normal" /\ Len(errors) = 3
    /\ errors[1].tag = "file_read_error"
    /\ errors[2].tag = "schema_mismatch"
    /\ errors[3].tag = "file_read_error"

\* The depths at which Step 2 finds several keys.
ConflictingDepths ==
    {d \in {Len(p) : p \in tree} :
        Cardinality(LevelKeys({p \in tree : Len(p) = d})) > 1}

\* C9: the depths are scanned in ascending order whatever the tree and the
\* order of the walk, and the depth Step 2 reports is the smallest
\* conflicting one; no deeper depth is reported.
C9_SmallestConflictingDepthReported ==
    /\ \A i, j \in 1..Len(directory_structures) :
          i < j => directory_structures[i].level < directory_structures[j].level
    /\ conflict.step = "depth" =>
          /\ conflict.level \in ConflictingDepths
          /\ \A d \in ConflictingDepths : conflict.level <= d
          /\ \A i \in 1..Len(errors) :
                errors[i].tag = "suspicious_path" =>
                    Len(errors[i].subject) = conflict.level
    /\ (conflict.step = "none") => ConflictingDepths = {}
C9_Witness ==
    /\ conflict.step = "depth"
    /\ Cardinality(ConflictingDepths) > 1
    /\ \E p, q \in tree : Len(p) = 1 /\ Len(q) = 1 /\ p # q

\* The names of the directories recorded so far.
Recorded == Structures(directory_structures)
\* k = v is the split of name n at its first "=".
FirstEqSplit(n, k, v) ==
    \E i \in 1..Len(n) :
        /\ n[i] = "=" /\ \A j \in 1..(i - 1) : n[j] # "="
        /\ k = SubSeq(n, 1, i - 1) /\ v = SubSeq(n, i + 1, Len(n))

\* C10 (as claimed): a directory contributes a key and a value only if its
\* name holds exactly one "="; a name with none or several adds nothing.
C10_OnlyNamesWithOneEq ==
    partition_columns =
        {SplitFirst(p[Len(p)])[1] : p \in {q \in Recorded : HasEqExactlyOne(q[Len(q)])}}

\* C10 (amended): a directory contributes a key and a value exactly when its
\* name holds at least one "=": the part before the first "=" is the key and
\* all that follows it is the value (k=v=w gives key k, value v=w); a name
\* with no "=" adds nothing; every directory's tuple is recorded under its
\* depth.
C10_SplitAtFirstEq ==
    /\ DOMAIN partition_values = partition_columns
    /\ \A p \in Recorded : \A i \in 1..Len(p[Len(p)]) :
          (p[Len(p)][i] = "=" /\ \A j \in 1..(i - 1) : p[Len(p)][j] # "=") =>
              /\ SubSeq(p[Len(p)], 1, i - 1) \in partition_columns
              /\ SubSeq(p[Len(p)], i + 1, Len(p[Len(p)]))
                     \in partition_values[SubSeq(p[Len(p)], 1, i - 1)]
    /\ \A k \in partition_columns : \A v \in partition_values[k] :
          \E p \in Recorded : FirstEqSplit(p[Len(p)], k, v)
    /\ \A i \in 1..Len(directory_structures) :
          \A s \in directory_structures[i].structures :
              Len(s) = directory_structures[i].level
    /\ Recorded \subseteq tree
    /\ pc = "CheckingConflicts" => Recorded = tree
C10_Witness ==
    /\ pc = "CheckingConflicts"
    /\ <<NameKVW>> \in tree /\ <<NameA>> \in tree
    /\ <<"k">> \in partition_columns
    /\ partition_values[<<"k">>] = {<<"v", "=", "w">>}

====
